---- MODULE Spec2Model ----
(***************************************************************************)
(* A model of src/polyfill/http.ts: the stream socket adapter returned by  *)
(* createStreamSocket and the upgrade client returned by request.          *)
(*                                                                         *)
(* Scheduling.  JavaScript runs one callback at a time.  Every action      *)
(* below is one callback run to completion: the synchronous body of an     *)
(* API call, one microtask, or one timer.  Microtasks (queueMicrotask and  *)
(* promise reactions) run first-in first-out from mq; a timer runs only    *)
(* when mq is empty.  API calls may be made at any moment (from a task or  *)
(* from a microtask of the caller's own).                                  *)
(*                                                                         *)
(* Environment.  The reader and the writer are the caller's objects.  A    *)
(* pending reader.read(), writer.write() or writer.close() settles at a    *)
(* moment and with an outcome the environment chooses; its reaction is     *)
(* queued on mq at that moment.  Event listeners are present for every     *)
(* event and only observe.                                                 *)
(***************************************************************************)
EXTENDS Integers, Sequences, FiniteSets, TLC

\* ------------------------------------------------------------------ bounds
\* API calls made on one adapter.
MaxOps == 2
\* Chunks the reader delivers before it ends or fails.
MaxReads == 1
\* API calls of CorkSpec.
MaxCorkOps == 5
\* API calls of CorkCbSpec.
MaxCbOps == 4
\* API calls and chunks of ClientSpec.
MaxClientOps == 1
MaxClientReads == 2

\* ------------------------------------------------------------------ values
\* The absent argument, and the error values of the model.  An error object
\* is truthy; undefined is not.
Undefined == "undefined"
Truthy(v) == v # Undefined

\* err instanceof Error
ErrorInstances == {"E_destroy", "E_read", "E_write", "E_close", "Error(reason)"}
IsError(v) == v \in ErrorInstances

\* Callbacks.  id 0 is the absent callback.  kind "request" marks the write
\* made by the client's end(), whose reaction is the client's own.  kind "user" is a callback the
\* caller supplied with call number id; kind "finish" is the closure
\* () => writeAndFinish() that end(data, cb) hands to write, id the number
\* of the end call whose cb it closes over (has says whether that cb exists).
NoCb == [kind |-> "none", id |-> 0, has |-> FALSE]
UserCb(n) == [kind |-> "user", id |-> n, has |-> TRUE]
FinishCb(n, hasCb) == [kind |-> "finish", id |-> n, has |-> hasCb]
RequestCb(n) == [kind |-> "request", id |-> n, has |-> FALSE]

\* Events, microtasks.
Ev(name, arg, data) == [name |-> name, arg |-> arg, data |-> data]
Task(kind, arg, data, cb) == [kind |-> kind, arg |-> arg, data |-> data, cb |-> cb]

VARIABLES
    readableState,      \* fakeSocket._readableState
    writableState,      \* fakeSocket._writableState
    corked,             \* let corked
    corkedQueue,        \* let corkedQueue
    corkedLastCallback, \* let corkedLastCallback
    pump,               \* the read pump: "reading", "resumed" or "stopped";
                        \* "none" while no adapter exists
    mq,                 \* the microtask queue
    timers,             \* setTimeout callbacks not yet run
    events,             \* events the adapter has emitted, in order
    cbLog,              \* caller callbacks invoked, in order
    writerLog,          \* chunks handed to writer.write, in order
    pendingWrites,      \* writer.write promises not yet settled
    writerCloses,       \* writer.close calls, by caller ("destroy", "end")
    pendingCloses,      \* end's writer.close promises that may yet reject
    readerCancels,      \* reader.cancel calls, by reason
    hasClient,          \* whether request() made the adapter
    upgraded,           \* request: let upgraded
    clientEvents,       \* events requestEmitter has emitted, in order
    requestThrew,       \* whether request() threw
    proxyCalls,         \* calls of options.proxyStreams
    calls,              \* API calls made so far, in order
    nReads,             \* chunks delivered so far
    limits              \* the bounds of the specification checked

vars == << readableState, writableState, corked, corkedQueue, corkedLastCallback,
           pump, mq, timers, events, cbLog, writerLog, pendingWrites,
           writerCloses, pendingCloses, readerCancels, hasClient, upgraded,
           clientEvents, requestThrew, proxyCalls, calls, nReads, limits >>

adapterFlags == << readableState, writableState >>
corkVars == << corked, corkedQueue, corkedLastCallback >>
writerVars == << writerLog, pendingWrites, writerCloses, pendingCloses >>
clientVars == << hasClient, upgraded, clientEvents, requestThrew, proxyCalls,
                limits >>

\* ------------------------------------------------- the upgrade response parser
\* Bytes are 0..255; text is a sequence of UTF-16 code units.

\* How many of the `need` bytes after position i (1-based) continue the
\* UTF-8 sequence started there: the first must lie in lo..hi, the others in
\* 128..191.
RECURSIVE Continuations(_, _, _, _, _)
Continuations(bytes, i, need, lo, hi) ==
    IF need = 0 \/ i > Len(bytes) \/ bytes[i] < lo \/ bytes[i] > hi
    THEN 0
    ELSE 1 + Continuations(bytes, i + 1, need - 1, 128, 191)

\* The UTF-16 code units of code point cp.
CodeUnits(cp) ==
    IF cp < 65536
    THEN << cp >>
    ELSE << 55296 + ((cp - 65536) \div 1024), 56320 + ((cp - 65536) % 1024) >>

\* The UTF-8 decoder of new TextDecoder().decode from byte i on: a malformed
\* or truncated sequence decodes to one U+FFFD.
RECURSIVE DecodeFrom(_, _)
DecodeFrom(bytes, i) ==
    IF i > Len(bytes) THEN << >>
    ELSE LET b == bytes[i]
             need == IF b >= 194 /\ b <= 223 THEN 1
                     ELSE IF b >= 224 /\ b <= 239 THEN 2
                     ELSE IF b >= 240 /\ b <= 244 THEN 3
                     ELSE 0
             lo == IF b = 224 THEN 160 ELSE IF b = 240 THEN 144 ELSE 128
             hi == IF b = 237 THEN 159 ELSE IF b = 244 THEN 143 ELSE 191
             k == Continuations(bytes, i + 1, need, lo, hi)
             cp == IF need = 1 THEN (b - 192) * 64 + (bytes[i + 1] - 128)
                   ELSE IF need = 2
                   THEN (b - 224) * 4096 + (bytes[i + 1] - 128) * 64
                        + (bytes[i + 2] - 128)
                   ELSE (b - 240) * 262144 + (bytes[i + 1] - 128) * 4096
                        + (bytes[i + 2] - 128) * 64 + (bytes[i + 3] - 128)
         IN  IF b < 128 THEN << b >> \o DecodeFrom(bytes, i + 1)
             ELSE IF need > 0 /\ k = need
             THEN CodeUnits(cp) \o DecodeFrom(bytes, i + 1 + need)
             ELSE << 65533 >> \o DecodeFrom(bytes, i + 1 + k)

\* new TextDecoder().decode(data): a leading byte order mark is dropped.
TextDecode(data) ==
    IF Len(data) >= 3 /\ SubSeq(data, 1, 3) = << 239, 187, 191 >>
    THEN DecodeFrom(data, 4)
    ELSE DecodeFrom(data, 1)

\* text.indexOf(pat): the 0-based index of the first occurrence, or -1.
IndexOf(text, pat) ==
    LET hits == { i \in 0 .. (Len(text) - Len(pat)) :
                    SubSeq(text, i + 1, i + Len(pat)) = pat }
    IN  IF hits = {} THEN -1
        ELSE CHOOSE i \in hits : \A j \in hits : i <= j

\* text.split(sep) for a non-empty sep.
RECURSIVE Split(_, _)
Split(text, sep) ==
    LET at == IndexOf(text, sep)
    IN  IF at = -1 THEN << text >>
        ELSE << SubSeq(text, 1, at) >>
             \o Split(SubSeq(text, at + Len(sep) + 1, Len(text)), sep)

\* The code units String.prototype.trim removes.
WhiteSpace == {9, 10, 11, 12, 13, 32, 160, 5760, 8232, 8233, 8239, 8287,
               12288, 65279} \cup (8192 .. 8202)

\* s.trim()
Trim(s) ==
    LET keep == { i \in 1 .. Len(s) : s[i] \notin WhiteSpace }
    IN  IF keep = {} THEN << >>
        ELSE SubSeq(s, CHOOSE i \in keep : \A j \in keep : i <= j,
                       CHOOSE i \in keep : \A j \in keep : i >= j)

\* s.toLowerCase(), on the Latin-1 letters.
ToLowerCase(s) ==
    [ i \in 1 .. Len(s) |->
        IF (s[i] >= 65 /\ s[i] <= 90) \/ (s[i] >= 192 /\ s[i] <= 222 /\ s[i] # 215)
        THEN s[i] + 32 ELSE s[i] ]

\* parts.join(sep)
RECURSIVE Join(_, _)
Join(parts, sep) ==
    IF parts = << >> THEN << >>
    ELSE IF Len(parts) = 1 THEN parts[1]
    ELSE parts[1] \o sep \o Join(Tail(parts), sep)

\* The (\d+) of the status pattern: the digits s starts with.
RECURSIVE LeadingDigits(_)
LeadingDigits(s) ==
    IF s = << >> \/ s[1] < 48 \/ s[1] > 57 THEN << >>
    ELSE << s[1] >> \o LeadingDigits(Tail(s))

\* parseInt(digits, 10)
RECURSIVE ParseInt(_)
ParseInt(digits) ==
    IF digits = << >> THEN 0
    ELSE ParseInt(SubSeq(digits, 1, Len(digits) - 1)) * 10
         + (digits[Len(digits)] - 48)

\* statusLine.match(/^HTTP\/1\.1 (\d+)/): the digits matched, << >> for no
\* match.
StatusMatch(statusLine) ==
    IF Len(statusLine) >= 9
       /\ SubSeq(statusLine, 1, 9) = << 72, 84, 84, 80, 47, 49, 46, 49, 32 >>
    THEN LeadingDigits(SubSeq(statusLine, 10, Len(statusLine)))
    ELSE << >>

\* The header loop of parseUpgradeResponse over lines[i..]: a later line
\* with the same key overwrites an earlier one.
RECURSIVE ParseHeaders(_, _, _)
ParseHeaders(lines, i, headers) ==
    IF i > Len(lines) THEN headers
    ELSE LET line == Trim(lines[i])
             parts == Split(line, << 58 >>)
             key == parts[1]
             valueParts == Tail(parts)
             name == ToLowerCase(Trim(key))
             value == Trim(Join(valueParts, << 58 >>))
         IN  IF line = << >> \/ key = << >> \/ valueParts = << >>
             THEN ParseHeaders(lines, i + 1, headers)
             ELSE ParseHeaders(lines, i + 1,
                    [ k \in DOMAIN headers \cup {name} |->
                        IF k = name THEN value ELSE headers[k] ])

NoHeaders == [ k \in {} |-> << >> ]

\* The parser taking any first line for a status line.
parseUpgradeResponseAnyStatus(data) ==
    LET text == TextDecode(data)
        headEnd == IndexOf(text, << 13, 10, 13, 10 >>)
        headerText == SubSeq(text, 1, headEnd)
        lines == Split(headerText, << 13, 10 >>)
        head == IF headEnd + 4 < Len(data)
                THEN SubSeq(data, headEnd + 4 + 1, Len(data))
                ELSE << >>
    IN  IF headEnd = -1
        THEN [ok |-> FALSE, err |-> "no header terminator", status |-> 0,
              headers |-> NoHeaders, head |-> << >>]
        ELSE [ok |-> TRUE, err |-> "",
              status |-> ParseInt(StatusMatch(lines[1])),
              headers |-> ParseHeaders(lines, 2, NoHeaders), head |-> head]

\* parseUpgradeResponse(data): ok is FALSE for a returned Error, err its
\* message.
parseUpgradeResponse(data) ==
    LET text == TextDecode(data)
        headEnd == IndexOf(text, << 13, 10, 13, 10 >>)
        headerText == SubSeq(text, 1, headEnd)
        lines == Split(headerText, << 13, 10 >>)
        statusMatch == StatusMatch(lines[1])
        head == IF headEnd + 4 < Len(data)
                THEN SubSeq(data, headEnd + 4 + 1, Len(data))
                ELSE << >>
    IN  IF headEnd = -1
        THEN [ok |-> FALSE, err |-> "no header terminator", status |-> 0,
              headers |-> NoHeaders, head |-> << >>]
        ELSE IF statusMatch = << >>
        THEN [ok |-> FALSE, err |-> "status line mismatch", status |-> 0,
              headers |-> NoHeaders, head |-> << >>]
        ELSE [ok |-> TRUE, err |-> "", status |-> ParseInt(statusMatch),
              headers |-> ParseHeaders(lines, 2, NoHeaders), head |-> head]

\* ------------------------------------------------------------- the client
\* An event of requestEmitter.  socket says whether the adapter is handed
\* over with it.
ClientEv(name, status, headers, socket, head, err) ==
    [name |-> name, status |-> status, headers |-> headers, socket |-> socket,
     head |-> head, err |-> err]

\* The listener without the assignment upgraded = true.
socketOnDataForgetsUpgrade(data) ==
    LET upgradeResponse == parseUpgradeResponse(data)
    IN  IF ~hasClient \/ upgraded
        THEN UNCHANGED << upgraded, clientEvents >>
        ELSE IF ~upgradeResponse.ok
        THEN /\ clientEvents' = Append(clientEvents,
                    ClientEv("error", 0, NoHeaders, FALSE, << >>,
                             upgradeResponse.err))
             /\ UNCHANGED upgraded
        ELSE IF upgradeResponse.status # 101
        THEN /\ clientEvents' = Append(clientEvents,
                    ClientEv("response", upgradeResponse.status,
                             upgradeResponse.headers, FALSE, << >>, ""))
             /\ UNCHANGED upgraded
        ELSE /\ clientEvents' = Append(clientEvents,
                    ClientEv("upgrade", 0, upgradeResponse.headers, TRUE,
                             upgradeResponse.head, ""))
             /\ UNCHANGED upgraded

\* request: the listener socket.on("data", ...).
socketOnData(data) ==
    LET upgradeResponse == parseUpgradeResponse(data)
    IN  IF ~hasClient \/ upgraded
        THEN UNCHANGED << upgraded, clientEvents >>
        ELSE IF ~upgradeResponse.ok
        THEN /\ clientEvents' = Append(clientEvents,
                    ClientEv("error", 0, NoHeaders, FALSE, << >>,
                             upgradeResponse.err))
             /\ UNCHANGED upgraded
        ELSE IF upgradeResponse.status # 101
        THEN /\ clientEvents' = Append(clientEvents,
                    ClientEv("response", upgradeResponse.status,
                             upgradeResponse.headers, FALSE, << >>, ""))
             /\ UNCHANGED upgraded
        ELSE /\ clientEvents' = Append(clientEvents,
                    ClientEv("upgrade", 0, upgradeResponse.headers, TRUE,
                             upgradeResponse.head, ""))
             /\ upgraded' = TRUE

\* ----------------------------------------------------------- the adapter
\* createStreamSocket: the state the constructor leaves, the pump awaiting
\* its first read.
createStreamSocket ==
    /\ readableState = [endEmitted |-> FALSE, destroyed |-> FALSE]
    /\ writableState = [finished |-> FALSE, errorEmitted |-> FALSE,
                        destroyed |-> FALSE, closed |-> FALSE]
    /\ corked = FALSE
    /\ corkedQueue = << >>
    /\ corkedLastCallback = NoCb
    /\ pump = "reading"
    /\ mq = << >>
    /\ timers = << >>
    /\ events = << >>
    /\ cbLog = << >>
    /\ writerLog = << >>
    /\ pendingWrites = << >>
    /\ writerCloses = << >>
    /\ pendingCloses = 0
    /\ readerCancels = << >>
    /\ calls = << >>
    /\ nReads = 0

\* destroy emitting close inside the call, before the error.
destroySyncClose(err, q) ==
    IF readableState.destroyed
    THEN /\ mq' = q
         /\ UNCHANGED << adapterFlags, writerCloses, readerCancels, events >>
    ELSE /\ readableState' = [readableState EXCEPT !.destroyed = TRUE]
         /\ writableState' = [writableState EXCEPT
                                !.destroyed = TRUE, !.closed = TRUE]
         /\ writerCloses' = Append(writerCloses, "destroy")
         /\ readerCancels' = Append(readerCancels,
                                IF Truthy(err) THEN err ELSE "Destroyed")
         /\ events' = events
                \o (IF ~writableState.closed
                    THEN << Ev("close", IF Truthy(err) THEN "true" ELSE "false",
                               << >>) >>
                    ELSE << >>)
                \o (IF Truthy(err) THEN << Ev("error", err, << >>) >> ELSE << >>)
         /\ mq' = q

\* destroy without its test of _readableState.destroyed.
destroyUnguarded(err, q) ==
    /\ readableState' = [readableState EXCEPT !.destroyed = TRUE]
    /\ writerCloses' = Append(writerCloses, "destroy")
    /\ readerCancels' = Append(readerCancels,
                           IF Truthy(err) THEN err ELSE "Destroyed")
    /\ events' = IF Truthy(err)
                 THEN Append(events, Ev("error", err, << >>))
                 ELSE events
    /\ IF ~writableState.closed
       THEN /\ writableState' = [writableState EXCEPT
                                   !.destroyed = TRUE, !.closed = TRUE]
            /\ mq' = Append(q, Task("close",
                           IF Truthy(err) THEN "true" ELSE "false",
                           << >>, NoCb))
       ELSE /\ writableState' = [writableState EXCEPT !.destroyed = TRUE]
            /\ mq' = q

\* destroy emitting what it cancels the reader with.
destroyEmitsReason(err, q) ==
    IF readableState.destroyed
    THEN /\ mq' = q
         /\ UNCHANGED << adapterFlags, writerCloses, readerCancels, events >>
    ELSE /\ readableState' = [readableState EXCEPT !.destroyed = TRUE]
         /\ writerCloses' = Append(writerCloses, "destroy")
         /\ readerCancels' = Append(readerCancels,
                                IF Truthy(err) THEN err ELSE "Destroyed")
         /\ events' = Append(events,
                         Ev("error", IF Truthy(err) THEN err ELSE "Destroyed",
                            << >>))
         /\ IF ~writableState.closed
            THEN /\ writableState' = [writableState EXCEPT
                                        !.destroyed = TRUE, !.closed = TRUE]
                 /\ mq' = Append(q, Task("close", "true", << >>, NoCb))
            ELSE /\ writableState' = [writableState EXCEPT !.destroyed = TRUE]
                 /\ mq' = q

\* destroy marking the readable side alone.
destroyReadableOnly(err, q) ==
    IF readableState.destroyed
    THEN /\ mq' = q
         /\ UNCHANGED << adapterFlags, writerCloses, readerCancels, events >>
    ELSE /\ readableState' = [readableState EXCEPT !.destroyed = TRUE]
         /\ writerCloses' = Append(writerCloses, "destroy")
         /\ readerCancels' = Append(readerCancels,
                                IF Truthy(err) THEN err ELSE "Destroyed")
         /\ events' = IF Truthy(err)
                      THEN Append(events, Ev("error", err, << >>))
                      ELSE events
         /\ IF ~writableState.closed
            THEN /\ writableState' = [writableState EXCEPT !.closed = TRUE]
                 /\ mq' = Append(q, Task("close",
                                IF Truthy(err) THEN "true" ELSE "false",
                                << >>, NoCb))
            ELSE /\ UNCHANGED writableState
                 /\ mq' = q

\* fakeSocket.destroy, called with the microtask queue q the call finds.
\* The rejection of its writer.close() is swallowed, so that promise has no
\* reaction to model.
destroy(err, q) ==
    IF readableState.destroyed
    THEN /\ mq' = q
         /\ UNCHANGED << adapterFlags, writerCloses, readerCancels, events >>
    ELSE /\ readableState' = [readableState EXCEPT !.destroyed = TRUE]
         /\ writerCloses' = Append(writerCloses, "destroy")
         /\ readerCancels' = Append(readerCancels,
                                IF Truthy(err) THEN err ELSE "Destroyed")
         /\ events' = IF Truthy(err)
                      THEN Append(events, Ev("error", err, << >>))
                      ELSE events
         /\ IF ~writableState.closed
            THEN /\ writableState' = [writableState EXCEPT
                                        !.destroyed = TRUE, !.closed = TRUE]
                 /\ mq' = Append(q, Task("close",
                                IF Truthy(err) THEN "true" ELSE "false",
                                << >>, NoCb))
            ELSE /\ writableState' = [writableState EXCEPT !.destroyed = TRUE]
                 /\ mq' = q

\* doWrite: hands data to writer.write; the promise stays pending with cb.
doWrite(data, cb) ==
    /\ writerLog' = Append(writerLog, data)
    /\ pendingWrites' = Append(pendingWrites, cb)

\* write keeping the callback of the first write enqueued.
writeKeepsFirstCallback(data, cb) ==
    IF corked
    THEN /\ corkedQueue' = Append(corkedQueue, data)
         /\ corkedLastCallback' = IF corkedQueue = << >> THEN cb
                                  ELSE corkedLastCallback
         /\ UNCHANGED << writerLog, pendingWrites >>
    ELSE /\ doWrite(data, cb)
         /\ UNCHANGED << corkedQueue, corkedLastCallback >>

\* fakeSocket.write
write(data, cb) ==
    IF corked
    THEN /\ corkedQueue' = Append(corkedQueue, data)
         /\ corkedLastCallback' = cb
         /\ UNCHANGED << writerLog, pendingWrites >>
    ELSE /\ doWrite(data, cb)
         /\ UNCHANGED << corkedQueue, corkedLastCallback >>

\* The queued chunks copied in the reverse order.
RECURSIVE MergedBackwards(_)
MergedBackwards(queue) ==
    IF queue = << >> THEN << >>
    ELSE MergedBackwards(Tail(queue)) \o Head(queue)

\* merged: the queued chunks copied one after the other into one buffer.
RECURSIVE Merged(_)
Merged(queue) ==
    IF queue = << >> THEN << >> ELSE Head(queue) \o Merged(Tail(queue))

\* fakeSocket.uncork
uncork ==
    /\ corked' = FALSE
    /\ IF Len(corkedQueue) > 0
       THEN /\ corkedQueue' = << >>
            /\ doWrite(Merged(corkedQueue), corkedLastCallback)
       ELSE UNCHANGED << corkedQueue, writerLog, pendingWrites >>
    /\ UNCHANGED corkedLastCallback

\* writeAndFinish of the end call numbered n, whose cb exists iff hasCb,
\* run with the microtask queue q.
writeAndFinish(n, hasCb, q) ==
    /\ writableState' = [writableState EXCEPT !.finished = TRUE]
    /\ writerCloses' = Append(writerCloses, "end")
    /\ pendingCloses' = pendingCloses + 1
    /\ mq' = q \o (IF hasCb THEN << Task("endcb", "", << >>, UserCb(n)) >>
                            ELSE << >>)
               \o << Task("finish", "", << >>, NoCb) >>

\* fakeSocket.end, the call numbered n.
end(hasData, data, hasCb, n) ==
    IF writableState.finished
    THEN UNCHANGED << writableState, writerVars, mq, corkedQueue,
                      corkedLastCallback >>
    ELSE IF hasData
         THEN /\ write(data, FinishCb(n, hasCb))
              /\ UNCHANGED << writableState, writerCloses, pendingCloses, mq >>
         ELSE /\ writeAndFinish(n, hasCb, mq)
              /\ UNCHANGED << writerLog, pendingWrites, corkedQueue,
                              corkedLastCallback >>

\* fakeSocket.emit("data", data), with the listener request() registered.
EmitData(data) ==
    /\ events' = Append(events, Ev("data", "", data))
    /\ socketOnData(data)
    /\ UNCHANGED << hasClient, requestThrew, proxyCalls, limits >>

\* ------------------------------------------------------------ API calls
\* An API call, with the value of _writableState.closed it finds.
Call(op, arg, data, hasCb) ==
    [op |-> op, arg |-> arg, data |-> data, hasCb |-> hasCb,
     closed |-> writableState.closed]

CanCall == Len(calls) < limits.ops

\* socket.destroy(err)
CallDestroy(err) ==
    /\ CanCall
    /\ calls' = Append(calls, Call("destroy", err, << >>, FALSE))
    /\ destroy(err, mq)
    /\ UNCHANGED << corkVars, pump, timers, cbLog, writerLog, pendingWrites,
                    pendingCloses, clientVars, nReads >>

\* socket.cork()
CallCork ==
    /\ CanCall
    /\ calls' = Append(calls, Call("cork", "", << >>, FALSE))
    /\ corked' = TRUE
    /\ UNCHANGED << adapterFlags, corkedQueue, corkedLastCallback, pump, mq,
                    timers, events, cbLog, writerVars, readerCancels,
                    clientVars, nReads >>

\* socket.uncork()
CallUncork ==
    /\ CanCall
    /\ calls' = Append(calls, Call("uncork", "", << >>, FALSE))
    /\ uncork
    /\ UNCHANGED << adapterFlags, pump, mq, timers, events, cbLog,
                    writerCloses, pendingCloses, readerCancels, clientVars,
                    nReads >>

\* socket.write(data, cb)
CallWrite(data, hasCb) ==
    /\ CanCall
    /\ calls' = Append(calls, Call("write", "", data, hasCb))
    /\ write(data, IF hasCb THEN UserCb(Len(calls) + 1) ELSE NoCb)
    /\ UNCHANGED << adapterFlags, corked, pump, mq, timers, events, cbLog,
                    writerCloses, pendingCloses, readerCancels, clientVars,
                    nReads >>

\* socket.end(data, cb); hasData is FALSE for end() and end(undefined, cb).
CallEnd(hasData, data, hasCb) ==
    /\ CanCall
    /\ calls' = Append(calls, Call("end", IF hasData THEN "data" ELSE "",
                                   data, hasCb))
    /\ end(hasData, data, hasCb, Len(calls) + 1)
    /\ UNCHANGED << readableState, corked, pump, timers, events, cbLog,
                    readerCancels, clientVars, nReads >>

\* fakeSocket.unshift
CallUnshift(data) ==
    /\ CanCall
    /\ calls' = Append(calls, Call("unshift", "", data, FALSE))
    /\ timers' = Append(timers, data)
    /\ UNCHANGED << adapterFlags, corkVars, pump, mq, events, cbLog,
                    writerVars, readerCancels, clientVars, nReads >>

\* The setTimeout callback of unshift: a task, run with no microtask left.
UnshiftTimer ==
    /\ mq = << >>
    /\ timers # << >>
    /\ timers' = Tail(timers)
    /\ EmitData(Head(timers))
    /\ UNCHANGED << adapterFlags, corkVars, pump, mq, cbLog, writerVars,
                    readerCancels, calls, nReads >>

\* ---------------------------------------------------------- environment
\* reader.read() resolves with a chunk.  A cancelled reader delivers none.
ReadValue(chunk) ==
    /\ pump = "reading"
    /\ readerCancels = << >>
    /\ nReads < limits.reads
    /\ nReads' = nReads + 1
    /\ pump' = "resumed"
    /\ mq' = Append(mq, Task("readValue", "", chunk, NoCb))
    /\ UNCHANGED << adapterFlags, corkVars, timers, events, cbLog, writerVars,
                    readerCancels, clientVars, calls >>

\* reader.read() resolves with done.
ReadDone ==
    /\ pump = "reading"
    /\ pump' = "resumed"
    /\ mq' = Append(mq, Task("readDone", "", << >>, NoCb))
    /\ UNCHANGED << adapterFlags, corkVars, timers, events, cbLog, writerVars,
                    readerCancels, clientVars, calls, nReads >>

\* reader.read() rejects with err.
ReadReject(err) ==
    /\ pump = "reading"
    /\ pump' = "resumed"
    /\ mq' = Append(mq, Task("readReject", err, << >>, NoCb))
    /\ UNCHANGED << adapterFlags, corkVars, timers, events, cbLog, writerVars,
                    readerCancels, clientVars, calls, nReads >>

\* seq without its i-th element.
Without(seq, i) == SubSeq(seq, 1, i - 1) \o SubSeq(seq, i + 1, Len(seq))

\* The i-th pending writer.write() resolves (err Undefined, ok TRUE) or
\* rejects with err.
WriteSettles(i, ok, err) ==
    /\ i \in 1 .. Len(pendingWrites)
    /\ pendingWrites[i].kind # "request"
    /\ pendingWrites' = Without(pendingWrites, i)
    /\ mq' = Append(mq, Task(IF ok THEN "writeThen" ELSE "writeCatch",
                             err, << >>, pendingWrites[i]))
    /\ UNCHANGED << adapterFlags, corkVars, pump, timers, events, cbLog,
                    writerLog, writerCloses, pendingCloses, readerCancels,
                    clientVars, calls, nReads >>

\* A writer.close() made by end rejects with err.  One that resolves has no
\* reaction: it is a promise that never rejects.
CloseRejects(err) ==
    /\ pendingCloses > 0
    /\ pendingCloses' = pendingCloses - 1
    /\ mq' = Append(mq, Task("closeCatch", err, << >>, NoCb))
    /\ UNCHANGED << adapterFlags, corkVars, pump, timers, events, cbLog,
                    writerLog, pendingWrites, writerCloses, readerCancels,
                    clientVars, calls, nReads >>

\* ------------------------------------------------------------ microtasks
Runs(kind) == mq # << >> /\ Head(mq).kind = kind

\* destroy: queueMicrotask(() => fakeSocket.emit("close", !!err)), and the
\* pump's queueMicrotask(() => fakeSocket.emit("close")).
EmitClose ==
    /\ Runs("close")
    /\ mq' = Tail(mq)
    /\ events' = Append(events, Ev("close", Head(mq).arg, << >>))
    /\ UNCHANGED << adapterFlags, corkVars, pump, timers, cbLog, writerVars,
                    readerCancels, clientVars, calls, nReads >>

\* The finish microtask emitting end first.
EmitEndThenFinish ==
    /\ Runs("finish")
    /\ mq' = Tail(mq)
    /\ IF ~readableState.endEmitted
       THEN /\ readableState' = [readableState EXCEPT !.endEmitted = TRUE]
            /\ events' = events \o << Ev("end", "", << >>),
                                      Ev("finish", "", << >>) >>
       ELSE /\ events' = Append(events, Ev("finish", "", << >>))
            /\ UNCHANGED readableState
    /\ UNCHANGED << writableState, corkVars, pump, timers, cbLog, writerVars,
                    readerCancels, clientVars, calls, nReads >>

\* The finish microtask without its test of _readableState.endEmitted.
EmitFinishUnguarded ==
    /\ Runs("finish")
    /\ mq' = Tail(mq)
    /\ readableState' = [readableState EXCEPT !.endEmitted = TRUE]
    /\ events' = events \o << Ev("finish", "", << >>), Ev("end", "", << >>) >>
    /\ UNCHANGED << writableState, corkVars, pump, timers, cbLog, writerVars,
                    readerCancels, clientVars, calls, nReads >>

\* writeAndFinish: queueMicrotask(() => { emit("finish"); ... emit("end") })
EmitFinish ==
    /\ Runs("finish")
    /\ mq' = Tail(mq)
    /\ IF ~readableState.endEmitted
       THEN /\ readableState' = [readableState EXCEPT !.endEmitted = TRUE]
            /\ events' = events \o << Ev("finish", "", << >>),
                                      Ev("end", "", << >>) >>
       ELSE /\ events' = Append(events, Ev("finish", "", << >>))
            /\ UNCHANGED readableState
    /\ UNCHANGED << writableState, corkVars, pump, timers, cbLog, writerVars,
                    readerCancels, clientVars, calls, nReads >>

\* A caller's callback invoked with err.
Invoked(cb, err) == [id |-> cb.id, err |-> err]

\* writeAndFinish: queueMicrotask(cb)
RunEndCb ==
    /\ Runs("endcb")
    /\ mq' = Tail(mq)
    /\ cbLog' = Append(cbLog, Invoked(Head(mq).cb, Undefined))
    /\ UNCHANGED << adapterFlags, corkVars, pump, timers, events, writerVars,
                    readerCancels, clientVars, calls, nReads >>

\* The call of a write callback cb with err: the caller's callback is
\* logged; end's closure runs writeAndFinish whatever err is.
InvokeWriteCb(cb, err) ==
    IF cb.kind = "finish"
    THEN /\ writeAndFinish(cb.id, cb.has, Tail(mq))
         /\ UNCHANGED << cbLog, events >>
    ELSE /\ cbLog' = Append(cbLog, Invoked(cb, err))
         /\ mq' = Tail(mq)
         /\ UNCHANGED << writableState, writerCloses, pendingCloses, events >>

\* doWrite: .then(() => { cb?.(); })
WriteThen ==
    /\ Runs("writeThen")
    /\ IF Head(mq).cb.kind = "none"
       THEN /\ mq' = Tail(mq)
            /\ UNCHANGED << cbLog, writableState, writerCloses, pendingCloses,
                            events >>
       ELSE InvokeWriteCb(Head(mq).cb, Undefined)
    /\ UNCHANGED << readableState, corkVars, pump, timers, writerLog,
                    pendingWrites, readerCancels, clientVars, calls, nReads >>

\* doWrite: .catch((err) => { if (cb) cb(err); else emit("error", err) })
WriteCatch ==
    /\ Runs("writeCatch")
    /\ IF Head(mq).cb.kind = "none"
       THEN /\ mq' = Tail(mq)
            /\ events' = Append(events, Ev("error", Head(mq).arg, << >>))
            /\ UNCHANGED << cbLog, writableState, writerCloses, pendingCloses >>
       ELSE InvokeWriteCb(Head(mq).cb, Head(mq).arg)
    /\ UNCHANGED << readableState, corkVars, pump, timers, writerLog,
                    pendingWrites, readerCancels, clientVars, calls, nReads >>

\* writeAndFinish: writer.close().catch((err) => { if (err) emit("error", err) })
CloseCatch ==
    /\ Runs("closeCatch")
    /\ mq' = Tail(mq)
    /\ events' = IF Truthy(Head(mq).arg)
                 THEN Append(events, Ev("error", Head(mq).arg, << >>))
                 ELSE events
    /\ UNCHANGED << adapterFlags, corkVars, pump, timers, cbLog, writerVars,
                    readerCancels, clientVars, calls, nReads >>

\* The pump emitting every chunk twice.
PumpDataTwice ==
    /\ Runs("readValue")
    /\ mq' = Tail(mq)
    /\ events' = events \o << Ev("data", "", Head(mq).data),
                              Ev("data", "", Head(mq).data) >>
    /\ socketOnData(Head(mq).data)
    /\ pump' = "reading"
    /\ UNCHANGED << adapterFlags, corkVars, timers, cbLog, writerVars,
                    readerCancels, calls, nReads, hasClient, requestThrew,
                    proxyCalls, limits >>

\* The pump after a read that delivered a chunk: emits data and reads again.
PumpData ==
    /\ Runs("readValue")
    /\ mq' = Tail(mq)
    /\ EmitData(Head(mq).data)
    /\ pump' = "reading"
    /\ UNCHANGED << adapterFlags, corkVars, timers, cbLog, writerVars,
                    readerCancels, calls, nReads >>

\* The pump's end-of-stream branch with the test of _writableState.closed
\* left out.
PumpDoneAlwaysCloses ==
    /\ Runs("readDone")
    /\ readableState' = [readableState EXCEPT !.destroyed = TRUE]
    /\ writableState' = [writableState EXCEPT !.closed = TRUE]
    /\ mq' = Append(Tail(mq), Task("close", Undefined, << >>, NoCb))
    /\ pump' = "stopped"
    /\ UNCHANGED << corkVars, timers, events, cbLog, writerVars,
                    readerCancels, clientVars, calls, nReads >>

\* The pump after a read that reported done.
PumpDone ==
    /\ Runs("readDone")
    /\ readableState' = [readableState EXCEPT !.destroyed = TRUE]
    /\ IF ~writableState.closed
       THEN /\ writableState' = [writableState EXCEPT !.closed = TRUE]
            /\ mq' = Append(Tail(mq), Task("close", Undefined, << >>, NoCb))
       ELSE /\ mq' = Tail(mq)
            /\ UNCHANGED writableState
    /\ pump' = "stopped"
    /\ UNCHANGED << corkVars, timers, events, cbLog, writerVars,
                    readerCancels, clientVars, calls, nReads >>

\* err instanceof Error ? err : new Error(String(err))
AsError(err) == IF IsError(err) THEN err ELSE "Error(reason)"

\* A catch block that drops the error.
PumpCatchSwallows ==
    /\ Runs("readReject")
    /\ mq' = Tail(mq)
    /\ pump' = "stopped"
    /\ UNCHANGED << adapterFlags, writerCloses, readerCancels, events,
                    corkVars, timers, cbLog, writerLog, pendingWrites,
                    pendingCloses, clientVars, calls, nReads >>

\* The pump's catch block.
PumpCatch ==
    /\ Runs("readReject")
    /\ IF ~readableState.destroyed
       THEN destroy(AsError(Head(mq).arg), Tail(mq))
       ELSE /\ mq' = Tail(mq)
            /\ UNCHANGED << adapterFlags, writerCloses, readerCancels, events >>
    /\ pump' = "stopped"
    /\ UNCHANGED << corkVars, timers, cbLog, writerLog, pendingWrites,
                    pendingCloses, clientVars, calls, nReads >>

RunMicrotask ==
    \/ EmitClose
    \/ EmitFinish
    \/ RunEndCb
    \/ WriteThen
    \/ WriteCatch
    \/ CloseCatch
    \/ PumpData
    \/ PumpDone
    \/ PumpCatch

\* ------------------------------------------------- the client's operations
\* new TextEncoder().encode(text), for text without surrogates.
RECURSIVE TextEncode(_)
TextEncode(text) ==
    IF text = << >> THEN << >>
    ELSE LET c == Head(text)
         IN  (IF c < 128 THEN << c >>
              ELSE IF c < 2048 THEN << 192 + (c \div 64), 128 + (c % 64) >>
              ELSE << 224 + (c \div 4096), 128 + ((c \div 64) % 64),
                      128 + (c % 64) >>)
             \o TextEncode(Tail(text))

\* `${n}` for a non-negative integer n.
RECURSIVE StringOf(_)
StringOf(n) ==
    IF n < 10 THEN << 48 + n >> ELSE StringOf(n \div 10) \o << 48 + (n % 10) >>

\* The header lines `${key}: ${value}` of createUpgradeRequest.
RECURSIVE HeaderLines(_)
HeaderLines(entries) ==
    IF entries = << >> THEN << >>
    ELSE << Head(entries)[1] \o << 58, 32 >> \o Head(entries)[2] >>
         \o HeaderLines(Tail(entries))

\* createUpgradeRequest(options); headers is the sequence Object.entries
\* gives.
createUpgradeRequest(options) ==
    LET lines == << << 71, 69, 84, 32 >> \o options.path
                    \o << 32, 72, 84, 84, 80, 47, 49, 46, 49 >>,
                    << 72, 111, 115, 116, 58, 32 >> \o options.host
                    \o << 58 >> \o StringOf(options.port) >>
                 \o HeaderLines(options.headers)
                 \o << << >>, << >> >>
    IN  TextEncode(Join(lines, << 13, 10 >>))

\* The options of the request modelled: path "/", host "h", port 80 and the
\* header U: ws.
Options ==
    [path |-> << 47 >>, host |-> << 104 >>, port |-> 80,
     headers |-> << << << 85 >>, << 119, 115 >> >> >>]

\* request() creating the adapter before it tests options.proxyStreams.
requestTestsHookLate(hasHook) ==
    /\ pump = "none"
    /\ ~requestThrew
    /\ pump' = "reading"
    /\ hasClient' = TRUE
    /\ upgraded' = FALSE
    /\ IF ~hasHook
       THEN /\ requestThrew' = TRUE
            /\ UNCHANGED proxyCalls
       ELSE /\ proxyCalls' = proxyCalls + 1
            /\ UNCHANGED requestThrew
    /\ UNCHANGED << adapterFlags, corkVars, mq, timers, events, cbLog,
                    writerVars, readerCancels, clientEvents, calls, nReads,
                    limits >>

\* request(options), hasHook saying whether options.proxyStreams is there.
\* Without it the call throws before anything is made.  With it the adapter
\* is made (createStreamSocket, whose pump awaits its first read; the other
\* variables hold the constructor's values already), the data listener is
\* registered and the hook is called.
request(hasHook) ==
    /\ pump = "none"
    /\ ~requestThrew
    /\ IF ~hasHook
       THEN /\ requestThrew' = TRUE
            /\ UNCHANGED << pump, hasClient, upgraded, proxyCalls >>
       ELSE /\ pump' = "reading"
            /\ hasClient' = TRUE
            /\ upgraded' = FALSE
            /\ proxyCalls' = proxyCalls + 1
            /\ UNCHANGED requestThrew
    /\ UNCHANGED << adapterFlags, corkVars, mq, timers, events, cbLog,
                    writerVars, readerCancels, clientEvents, calls, nReads,
                    limits >>

\* The client's end(): writer.write(createUpgradeRequest(options)), the
\* promise pending with the client's catch.
ClientEnd ==
    /\ hasClient
    /\ CanCall
    /\ calls' = Append(calls, Call("request.end", "", << >>, FALSE))
    /\ writerLog' = Append(writerLog, createUpgradeRequest(Options))
    /\ pendingWrites' = Append(pendingWrites, RequestCb(Len(calls) + 1))
    /\ UNCHANGED << adapterFlags, corkVars, pump, mq, timers, events, cbLog,
                    writerCloses, pendingCloses, readerCancels, clientVars,
                    nReads >>

\* A destroy that tears the adapter down as well.
ClientDestroyTearsDown(err) ==
    /\ hasClient
    /\ CanCall
    /\ calls' = Append(calls, Call("request.destroy", err, << >>, FALSE))
    /\ clientEvents' = Append(clientEvents,
                          ClientEv("error", 0, NoHeaders, FALSE, << >>, err))
    /\ destroy(err, mq)
    /\ UNCHANGED << corkVars, pump, timers, cbLog, writerLog, pendingWrites,
                    pendingCloses, hasClient, upgraded, requestThrew,
                    proxyCalls, limits, nReads >>

\* The client's destroy(err).
ClientDestroy(err) ==
    /\ hasClient
    /\ CanCall
    /\ calls' = Append(calls, Call("request.destroy", err, << >>, FALSE))
    /\ clientEvents' = Append(clientEvents,
                          ClientEv("error", 0, NoHeaders, FALSE, << >>, err))
    /\ UNCHANGED << adapterFlags, corkVars, pump, mq, timers, events, cbLog,
                    writerVars, readerCancels, hasClient, upgraded,
                    requestThrew, proxyCalls, limits, nReads >>

\* The i-th pending write, one made by the client's end(), resolves (ok) or
\* rejects with err.  Only the rejection has a reaction.
RequestWriteSettles(i, ok, err) ==
    /\ i \in 1 .. Len(pendingWrites)
    /\ pendingWrites[i].kind = "request"
    /\ pendingWrites' = Without(pendingWrites, i)
    /\ mq' = IF ok THEN mq
             ELSE Append(mq, Task("requestCatch", err, << >>, NoCb))
    /\ UNCHANGED << adapterFlags, corkVars, pump, timers, events, cbLog,
                    writerLog, writerCloses, pendingCloses, readerCancels,
                    clientVars, calls, nReads >>

\* The catch emitting the rejection value as it came.
RequestCatchRaw ==
    /\ Runs("requestCatch")
    /\ mq' = Tail(mq)
    /\ clientEvents' = Append(clientEvents,
            ClientEv("error", 0, NoHeaders, FALSE, << >>, Head(mq).arg))
    /\ UNCHANGED << adapterFlags, corkVars, pump, timers, events, cbLog,
                    writerVars, readerCancels, hasClient, upgraded,
                    requestThrew, proxyCalls, limits, calls, nReads >>

\* end: .catch((err) => { if (err === undefined) err = new Error("Readable
\* was closed"); requestEmitter.emit("error", err) })
RequestCatch ==
    /\ Runs("requestCatch")
    /\ mq' = Tail(mq)
    /\ clientEvents' = Append(clientEvents,
            ClientEv("error", 0, NoHeaders, FALSE, << >>,
                     IF Head(mq).arg = Undefined
                     THEN "Readable was closed" ELSE Head(mq).arg))
    /\ UNCHANGED << adapterFlags, corkVars, pump, timers, events, cbLog,
                    writerVars, readerCancels, hasClient, upgraded,
                    requestThrew, proxyCalls, limits, calls, nReads >>

\* ------------------------------------------------------- specifications
\* Chunks of the adapter specifications.
ChunkA == << 1 >>
ChunkB == << 2, 3 >>

\* Spec: the life cycle of one adapter made by createStreamSocket alone.
Init ==
    /\ createStreamSocket
    /\ limits = [ops |-> MaxOps, reads |-> MaxReads]
    /\ hasClient = FALSE
    /\ upgraded = FALSE
    /\ clientEvents = << >>
    /\ requestThrew = FALSE
    /\ proxyCalls = 0

ApiCall ==
    \/ \E err \in { Undefined, "E_destroy" } : CallDestroy(err)
    \/ CallCork
    \/ CallUncork
    \/ CallWrite(ChunkA, FALSE)
    \/ CallEnd(FALSE, << >>, FALSE)
    \/ CallEnd(TRUE, ChunkA, FALSE)

Environment ==
    \/ ReadValue(ChunkA)
    \/ ReadDone
    \/ \E err \in { "E_read", "reason" } : ReadReject(err)
    \/ \E i \in 1 .. Len(pendingWrites) : WriteSettles(i, TRUE, Undefined)
    \/ \E i \in 1 .. Len(pendingWrites) : WriteSettles(i, FALSE, "E_write")
    \/ \E err \in { "E_close", Undefined } : CloseRejects(err)

Microtask ==
    \/ EmitClose
    \/ EmitFinish
    \/ WriteThen
    \/ WriteCatch
    \/ CloseCatch
    \/ PumpData
    \/ PumpDone
    \/ PumpCatch

Next == ApiCall \/ Environment \/ Microtask

Spec == Init /\ [][Next]_vars

\* The event loop runs every queued microtask.
FairSpec == Spec /\ WF_vars(Microtask)

\* CorkSpec: the write side of one adapter: cork, uncork and write, with the
\* writer settling the writes.
CorkInit ==
    /\ createStreamSocket
    /\ limits = [ops |-> MaxCorkOps, reads |-> 0]
    /\ hasClient = FALSE
    /\ upgraded = FALSE
    /\ clientEvents = << >>
    /\ requestThrew = FALSE
    /\ proxyCalls = 0

CorkNext ==
    \/ CallCork
    \/ CallUncork
    \/ \E d \in { ChunkA, ChunkB } : CallWrite(d, FALSE)
    \/ \E i \in 1 .. Len(pendingWrites) : WriteSettles(i, TRUE, Undefined)
    \/ \E i \in 1 .. Len(pendingWrites) : WriteSettles(i, FALSE, "E_write")
    \/ WriteThen
    \/ WriteCatch

CorkSpec == CorkInit /\ [][CorkNext]_vars

\* CorkCbSpec: cork, uncork and write with and without callbacks, the writer
\* settling the writes.
CorkCbInit ==
    /\ createStreamSocket
    /\ limits = [ops |-> MaxCbOps, reads |-> 0]
    /\ hasClient = FALSE
    /\ upgraded = FALSE
    /\ clientEvents = << >>
    /\ requestThrew = FALSE
    /\ proxyCalls = 0

CorkCbNext ==
    \/ CallCork
    \/ CallUncork
    \/ \E hasCb \in BOOLEAN : CallWrite(ChunkA, hasCb)
    \/ \E i \in 1 .. Len(pendingWrites) : WriteSettles(i, TRUE, Undefined)
    \/ \E i \in 1 .. Len(pendingWrites) : WriteSettles(i, FALSE, "E_write")
    \/ WriteThen
    \/ WriteCatch

CorkCbSpec == CorkCbInit /\ [][CorkCbNext]_vars

\* Chunks the proxy delivers to a client: two 101 responses (one followed by
\* a frame), a 101 response with a header value outside ASCII (X: e-acute,
\* two bytes in UTF-8) followed by a frame, a 200 response, a header block cut
\* short, a status line of another protocol version, and a frame.
Chunk101 ==
    << 72, 84, 84, 80, 47, 49, 46, 49, 32, 49, 48, 49, 32, 83, 13, 10,
       85, 112, 103, 114, 97, 100, 101, 58, 32, 119, 115, 13, 10, 13, 10,
       129, 1, 120 >>
Chunk101NoHead ==
    << 72, 84, 84, 80, 47, 49, 46, 49, 32, 49, 48, 49, 32, 83, 13, 10, 13, 10 >>
Chunk101Latin ==
    << 72, 84, 84, 80, 47, 49, 46, 49, 32, 49, 48, 49, 32, 83, 13, 10,
       88, 58, 32, 195, 169, 13, 10, 13, 10, 129, 1, 122 >>
Chunk200 ==
    << 72, 84, 84, 80, 47, 49, 46, 49, 32, 50, 48, 48, 32, 79, 75, 13, 10,
       13, 10 >>
ChunkNoTerminator ==
    << 72, 84, 84, 80, 47, 49, 46, 49, 32, 49, 48, 49, 32, 83, 13, 10 >>
ChunkBadStatus ==
    << 72, 84, 84, 80, 47, 49, 46, 48, 32, 49, 48, 49, 32, 83, 13, 10, 13, 10 >>
ChunkFrame == << 129, 1, 121 >>
ClientChunks ==
    { Chunk101, Chunk101NoHead, Chunk101Latin, Chunk200, ChunkNoTerminator,
      ChunkBadStatus, ChunkFrame }

\* The state before request() is called: there is no adapter yet, and the
\* variables of the adapter hold what its constructor will leave in them.
ClientInit ==
    /\ readableState = [endEmitted |-> FALSE, destroyed |-> FALSE]
    /\ writableState = [finished |-> FALSE, errorEmitted |-> FALSE,
                        destroyed |-> FALSE, closed |-> FALSE]
    /\ corked = FALSE
    /\ corkedQueue = << >>
    /\ corkedLastCallback = NoCb
    /\ pump = "none"
    /\ mq = << >>
    /\ timers = << >>
    /\ events = << >>
    /\ cbLog = << >>
    /\ writerLog = << >>
    /\ pendingWrites = << >>
    /\ writerCloses = << >>
    /\ pendingCloses = 0
    /\ readerCancels = << >>
    /\ calls = << >>
    /\ nReads = 0
    /\ limits = [ops |-> MaxClientOps, reads |-> MaxClientReads]
    /\ hasClient = FALSE
    /\ upgraded = FALSE
    /\ clientEvents = << >>
    /\ requestThrew = FALSE
    /\ proxyCalls = 0

\* ClientSpec: one call of request() and the handshake that follows: the
\* caller ends or destroys the request, the proxy settles the write of the
\* request, delivers chunks and ends the stream, and whoever holds the
\* adapter may push a chunk back.
ClientNext ==
    \/ \E hasHook \in BOOLEAN : request(hasHook)
    \/ ClientEnd
    \/ \E err \in { Undefined, "E_client" } : ClientDestroy(err)
    \/ \E i \in 1 .. Len(pendingWrites) :
         RequestWriteSettles(i, TRUE, Undefined)
    \/ \E i \in 1 .. Len(pendingWrites), err \in { Undefined, "E_write" } :
         RequestWriteSettles(i, FALSE, err)
    \/ RequestCatch
    \/ \E c \in ClientChunks : ReadValue(c)
    \/ ReadDone
    \/ PumpData
    \/ PumpDone
    \/ EmitClose
    \/ \E c \in { Chunk101, ChunkFrame } : hasClient /\ CallUnshift(c)
    \/ UnshiftTimer

ClientSpec == ClientInit /\ [][ClientNext]_vars

\* ------------------------------------------------------------- vocabulary
\* Positions of the events called name, and their number.
At(name) == { i \in 1 .. Len(events) : events[i].name = name }
Count(name) == Cardinality(At(name))

\* Calls of op made so far.
CallsOf(op) == { k \in 1 .. Len(calls) : calls[k].op = op }

\* Microtasks of a kind still queued.
Queued(kind) == { i \in 1 .. Len(mq) : mq[i].kind = kind }

\* The step is an API call of op.
IsCall(op) == Len(calls') = Len(calls) + 1 /\ calls'[Len(calls')].op = op

\* ---------------------------------------------------------------- C1
Last(seq) == seq[Len(seq)]

\* C1: close is emitted at most once whatever the calls and the reader do,
\* and an adapter whose readable side is destroyed (by destroy, by
\* end-of-stream or by a failed read) emits close, once.
C1_CloseExactlyOnce ==
    /\ [](Count("close") <= 1)
    /\ [](readableState.destroyed => Count("close") + Cardinality(Queued("close")) = 1)
    /\ (readableState.destroyed ~> (Count("close") = 1))

\* destroy was called and the reader ended as well, and close came once.
C1_Witness ==
    /\ readableState.destroyed
    /\ CallsOf("destroy") # {}
    /\ pump = "stopped"
    /\ Count("close") = 1
    /\ mq = << >>

\* ---------------------------------------------------------------- C2
\* The step is a call destroy(err) with an error on an adapter not yet
\* destroyed.
DestroysWithError ==
    /\ IsCall("destroy")
    /\ Truthy(Last(calls').arg)
    /\ ~readableState.destroyed

\* Every close that reports an error has an error event before it.
ErrorBeforeClose ==
    \A i \in At("close") :
        events[i].arg = "true" => \E j \in At("error") : j < i

\* C2: destroy(err) on an adapter not yet destroyed emits error inside the
\* call, with no close emitted before or inside the call; close is left to
\* a microtask queued behind the ones already waiting, so it follows error.
C2_ErrorBeforeClose ==
    /\ [][DestroysWithError =>
            /\ Count("close") = 0
            /\ events' = Append(events, Ev("error", "E_destroy", << >>))
            /\ mq' = Append(mq, Task("close", "true", << >>, NoCb))]_vars
    /\ []ErrorBeforeClose

\* destroy(new Error(...)) on a fresh adapter, one microtask later: the
\* events are error, close.
C2_Witness ==
    /\ Len(calls) = 1
    /\ calls[1].op = "destroy"
    /\ events = << Ev("error", "E_destroy", << >>), Ev("close", "true", << >>) >>

\* ---------------------------------------------------------------- C3
\* What a call of destroy may touch.
destroyFootprint ==
    << readableState, writableState, events, mq, writerCloses, readerCancels >>

\* Errors that destroy calls emitted.
DestroyErrors == { i \in At("error") : events[i].arg = "E_destroy" }

\* C3: a destroy call after the first changes nothing: it emits no event,
\* queues no close, cancels no reader and closes no writer.  Once destroy
\* has been called there is one close, emitted or about to be, and at most
\* one error of destroy's.
C3_DestroyIdempotent ==
    /\ [][IsCall("destroy") /\ CallsOf("destroy") # {} =>
            UNCHANGED destroyFootprint]_vars
    /\ [](CallsOf("destroy") # {} =>
            /\ Count("close") + Cardinality(Queued("close")) = 1
            /\ Cardinality(DestroyErrors) <= 1
            /\ Len(readerCancels) <= 1
            /\ Cardinality({ i \in 1 .. Len(writerCloses) :
                               writerCloses[i] = "destroy" }) <= 1)

\* Two destroy calls, both with an error, and the microtasks run.
C3_Witness ==
    /\ Cardinality(CallsOf("destroy")) = 2
    /\ \A k \in CallsOf("destroy") : Truthy(calls[k].arg)
    /\ mq = << >>
    /\ Count("close") = 1
    /\ Count("error") = 1

\* ---------------------------------------------------------------- C4
\* Calls end() made with no data.
EndsWithoutData == { k \in CallsOf("end") : calls[k].arg = "" }

\* The names of the events emitted, in order.
Names == [ i \in 1 .. Len(events) |-> events[i].name ]

FinishThenEndBefore(upTo) ==
    \E j \in 1 .. (upTo - 2) :
        events[j].name = "finish" /\ events[j + 1].name = "end"

CatchesRead ==
    /\ pump = "resumed"
    /\ pump' = "stopped"
    /\ mq # << >>
    /\ Head(mq).kind = "readReject"

\* The errors a failed read is reported with.
ReadErrors == { i \in At("error") : events[i].arg \in { "E_read", "Error(reason)" } }

\* C5: a read that rejects on an adapter not destroyed emits error, leaves
\* close to the next microtask and sets both destroyed flags; close then
\* follows.  On a destroyed adapter the rejection emits nothing.
C5_ReadFailure ==
    /\ [][CatchesRead =>
            IF ~readableState.destroyed
            THEN /\ events' = Append(events,
                        Ev("error", IF Head(mq).arg = "E_read" THEN "E_read"
                                    ELSE "Error(reason)", << >>))
                 /\ mq' = Append(Tail(mq), Task("close", "true", << >>, NoCb))
                 /\ readableState'.destroyed
                 /\ writableState'.destroyed
            ELSE /\ events' = events
                 /\ mq' = Tail(mq)]_vars
    /\ (ReadErrors # {} ~>
          \E i \in ReadErrors : \E j \in At("close") :
              i < j /\ events[j].arg = "true")

\* The first read rejects: error, close, and both sides destroyed.
C5_Witness ==
    /\ calls = << >>
    /\ events = << Ev("error", "E_read", << >>), Ev("close", "true", << >>) >>
    /\ readableState.destroyed
    /\ writableState.destroyed

\* ---------------------------------------------------------------- C6
EndCloses == { i \in 1 .. Len(writerCloses) : writerCloses[i] = "end" }

\* C6: an end call after the first is a no-op, so finish is emitted at most
\* once and end closes the writer at most once.
C6_EndIdempotent ==
    /\ [][IsCall("end") /\ CallsOf("end") # {} =>
            UNCHANGED << writableState, writerVars, mq, corkVars, events >>]_vars
    /\ [](Count("finish") <= 1 /\ Cardinality(EndCloses) <= 1)

\* ---------------------------------------------------------------- C7
\* C7: end is emitted at most once; the step that emits it emits finish and
\* then end, and sets _readableState.endEmitted.
C7_EndOnce ==
    /\ [](/\ Count("end") <= 1
          /\ \A j \in At("end") : j > 1 /\ events[j - 1].name = "finish"
          /\ (Count("end") = 1 <=> readableState.endEmitted))
    /\ [][Len(events') > Len(events) /\ Last(events').name = "end" =>
            /\ events' = events \o << Ev("finish", "", << >>),
                                      Ev("end", "", << >>) >>
            /\ ~readableState.endEmitted
            /\ readableState'.endEmitted]_vars

\* writeAndFinish ran twice and end was emitted once.
C7_Witness ==
    /\ Count("finish") = 2
    /\ Count("end") = 1

\* ---------------------------------------------------------------- C8
\* The bytes of a sequence of chunks, one chunk after the other.
RECURSIVE Bytes(_)
Bytes(chunks) ==
    IF chunks = << >> THEN << >>
    ELSE Bytes(SubSeq(chunks, 1, Len(chunks) - 1)) \o chunks[Len(chunks)]

\* The payloads of the write calls made, in call order.
RECURSIVE WritePayloads(_)
WritePayloads(n) ==
    IF n = 0 THEN << >>
    ELSE WritePayloads(n - 1)
         \o (IF calls[n].op = "write" THEN << calls[n].data >> ELSE << >>)

\* C8: a write while corked hands the writer nothing; uncork with chunks
\* queued hands it one chunk, their bytes in the order of the write calls,
\* and empties the queue; uncork with none queued hands it nothing.  So the
\* writer's bytes, and after them the queued ones, are the payloads of the
\* write calls in call order.
C8_CorkedWrites ==
    /\ [][IsCall("write") /\ corked =>
            /\ writerLog' = writerLog
            /\ pendingWrites' = pendingWrites]_vars
    /\ [][IsCall("uncork") =>
            IF corkedQueue # << >>
            THEN /\ writerLog' = Append(writerLog, Bytes(corkedQueue))
                 /\ corkedQueue' = << >>
            ELSE /\ writerLog' = writerLog
                 /\ pendingWrites' = pendingWrites]_vars
    /\ [](Bytes(writerLog) \o Bytes(corkedQueue)
            = Bytes(WritePayloads(Len(calls))))

\* cork, write(B), write(A), uncork: the writer has the one chunk B A.
C8_Witness ==
    /\ Len(calls) = 4
    /\ calls[2].data = ChunkB
    /\ calls[3].data = ChunkA
    /\ calls[1].op = "cork"
    /\ calls[4].op = "uncork"
    /\ writerLog = << ChunkB \o ChunkA >>
    /\ corkedQueue = << >>

\* ---------------------------------------------------------------- C9
\* The step emits data on the adapter.
EmitsData == Len(events') = Len(events) + 1 /\ Last(events').name = "data"

Upgrades == { i \in 1 .. Len(clientEvents) : clientEvents[i].name = "upgrade" }

\* The header map { "upgrade": "ws" }.
UpgradeWs == << 117, 112, 103, 114, 97, 100, 101 >> :> << 119, 115 >>

\* C9: before the upgrade a chunk of status 101 makes the client emit
\* upgrade with the parsed headers, the adapter and the bytes after the
\* header block, and set upgraded; upgrade is emitted at most once, and once
\* upgraded the client emits nothing more, whatever data the adapter emits.
C9_UpgradeOnce ==
    /\ [][EmitsData /\ ~upgraded /\ Last(events').data = Chunk101 =>
            /\ clientEvents' = Append(clientEvents,
                    ClientEv("upgrade", 0, UpgradeWs, TRUE, << 129, 1, 120 >>, ""))
            /\ upgraded']_vars
    /\ [][EmitsData /\ ~upgraded /\ Last(events').data = Chunk101NoHead =>
            /\ clientEvents' = Append(clientEvents,
                    ClientEv("upgrade", 0, NoHeaders, TRUE, << >>, ""))
            /\ upgraded']_vars
    /\ [][upgraded => upgraded']_vars
    /\ [][upgraded /\ EmitsData => clientEvents' = clientEvents]_vars
    /\ [](Cardinality(Upgrades) <= 1 /\ (upgraded <=> Upgrades # {}))

\* A 101 response was answered with upgrade, and two more chunks, one of
\* them a 101 response again, were emitted as data after it.
C9_Witness ==
    /\ upgraded
    /\ Len(clientEvents) = 1
    /\ Count("data") = 3
    /\ events[1].data = Chunk101
    /\ events[3].data = Chunk101

\* --------------------------------------------------------------- C10
\* C10: when the first chunk is a response of another status than 101, the
\* client emits response with the status and the headers, without the
\* adapter, and never emits upgrade afterwards.
C10_NoUpgradeAfterResponse ==
    (At("data") # {} /\ events[1].data = Chunk200) =>
        /\ \E i \in DOMAIN clientEvents :
             clientEvents[i] = ClientEv("response", 200, NoHeaders, FALSE, << >>, "")
        /\ Upgrades = {}

\* --------------------------------------------------------------- C11
\* The step runs the catch of the client's end().
CatchesRequestWrite == Runs("requestCatch") /\ mq' = Tail(mq)

\* An error event of the client carrying err.
ClientError(err) == ClientEv("error", 0, NoHeaders, FALSE, << >>, err)

\* C11: the client's end() hands the upgrade request to the writer and
\* neither throws nor emits; when that write rejects, the client emits
\* error with the rejection value, or with the error "Readable was closed"
\* when the value is undefined.
C11_EndWriteRejection ==
    /\ [][IsCall("request.end") =>
            /\ writerLog' = Append(writerLog, createUpgradeRequest(Options))
            /\ clientEvents' = clientEvents
            /\ ~requestThrew']_vars
    /\ [][CatchesRequestWrite =>
            /\ clientEvents' = Append(clientEvents,
                    ClientError(IF Head(mq).arg = Undefined
                                THEN "Readable was closed" ELSE Head(mq).arg))
            /\ ~requestThrew']_vars
    /\ [](\A i \in DOMAIN clientEvents :
            clientEvents[i].name = "error" => clientEvents[i].err # Undefined
                                              \/ CallsOf("request.destroy") # {})

\* end() was called, its write rejected with undefined, and the client
\* emitted the error "Readable was closed".
C11_Witness ==
    /\ CallsOf("request.end") # {}
    /\ \E i \in DOMAIN clientEvents :
         clientEvents[i] = ClientError("Readable was closed")

\* --------------------------------------------------------------- C12
\* C12: request() without options.proxyStreams throws with no adapter made,
\* no hook called and no event emitted; with the hook it does not throw,
\* and calls the hook once, inside request(), before any byte is written.
C12_HookRequired ==
    /\ [](requestThrew =>
            /\ pump = "none"
            /\ ~hasClient
            /\ proxyCalls = 0
            /\ events = << >>
            /\ clientEvents = << >>
            /\ writerLog = << >>)
    /\ [](hasClient => ~requestThrew /\ proxyCalls = 1)
    /\ [][proxyCalls' # proxyCalls =>
            /\ ~hasClient
            /\ hasClient'
            /\ proxyCalls' = 1
            /\ writerLog' = << >>]_vars

\* request() returned with the hook called once, and end() has since
\* written the request.
C12_Witness ==
    /\ hasClient
    /\ proxyCalls = 1
    /\ writerLog = << createUpgradeRequest(Options) >>

\* --------------------------------------------------------------- C13
\* C13: the client's destroy(err) emits error with err on the client and
\* leaves the adapter as it is: flags, cork queue, upgraded, reader, writer,
\* events, and nothing queued that could emit later.
C13_ClientDestroyFrame ==
    [][IsCall("request.destroy") =>
         /\ clientEvents' = Append(clientEvents, ClientError(Last(calls').arg))
         /\ UNCHANGED << adapterFlags, corkVars, upgraded, readerCancels,
                         writerVars, events, mq, timers, pump >>]_vars

\* destroy(err) was called on the client, and the adapter went on to
\* deliver the 101 response, which the client answered with upgrade.
C13_Witness ==
    /\ Len(clientEvents) = 2
    /\ clientEvents[1] = ClientError("E_client")
    /\ clientEvents[2].name = "upgrade"
    /\ readerCancels = << >>
    /\ writerCloses = << >>

\* --------------------------------------------------------------- C14
\* The step runs the reaction of a settled write, of the kind given.
Reacts(kind) ==
    /\ Runs(kind)
    /\ calls' = calls
    /\ pendingWrites' = pendingWrites
    /\ Len(mq') <= Len(mq)

\* C14: a write that succeeds invokes the callback given with it, with no
\* error; a write that rejects hands the error to the caller's callback when
\* there is one, and is emitted as error on the adapter when there is none.
C14_WriteOutcomeDelivered ==
    /\ [][Reacts("writeThen") /\ Head(mq).cb.kind = "user" =>
            cbLog' = Append(cbLog, Invoked(Head(mq).cb, Undefined))]_vars
    /\ [][Reacts("writeCatch") =>
            IF Head(mq).cb.has
            THEN cbLog' = Append(cbLog, Invoked(Head(mq).cb, Head(mq).arg))
            ELSE events' = Append(events, Ev("error", Head(mq).arg, << >>))]_vars

\* --------------------------------------------------------------- C15
\* Only destroy, cork and uncork have been called.
NoWriteCalls == \A k \in 1 .. Len(calls) : calls[k].op \in { "destroy", "cork", "uncork" }

\* C15: destroy() with no error emits nothing inside the call and cancels
\* the reader with "Destroyed"; when that is what destroyed the adapter, and
\* nothing was written, no error is ever emitted, whatever the cancelled read
\* does, and close carries no hadError.
C15_CleanDestroy ==
    /\ [][IsCall("destroy") /\ Last(calls').arg = Undefined =>
            /\ events' = events
            /\ readerCancels' # readerCancels =>
                 readerCancels' = Append(readerCancels, "Destroyed")]_vars
    /\ [](readerCancels = << "Destroyed" >> /\ NoWriteCalls =>
            /\ At("error") = {}
            /\ \A i \in At("close") : events[i].arg # "true")

\* destroy() was the one call made; the read it cancelled has settled and
\* the pump has stopped; close(false) is the one event.
C15_Witness ==
    /\ Len(calls) = 1
    /\ calls[1].op = "destroy"
    /\ readerCancels = << "Destroyed" >>
    /\ pump = "stopped"
    /\ events = << Ev("close", "false", << >>) >>

\* --------------------------------------------------------------- C16
\* The bytes of chunk after its first double CRLF.
AfterTerminator(chunk) ==
    SubSeq(chunk, IndexOf(chunk, << 13, 10, 13, 10 >>) + 5, Len(chunk))

\* The step makes the client emit the event called name.
ClientEmits(name) ==
    /\ Len(clientEvents') = Len(clientEvents) + 1
    /\ Last(clientEvents').name = name

\* C16: the head passed with upgrade is the chunk's bytes after its first
\* double CRLF, whatever bytes the header block holds.
C16_HeadIsRemainder ==
    [][EmitsData /\ ClientEmits("upgrade") =>
         Last(clientEvents').head = AfterTerminator(Last(events').data)]_vars

\* --------------------------------------------------------------- C17
\* text starts with HTTP/1.1, a space and a digit.
MatchesStatusLine(text) ==
    /\ Len(text) >= 10
    /\ SubSeq(text, 1, 9) = << 72, 84, 84, 80, 47, 49, 46, 49, 32 >>
    /\ text[10] \in 48 .. 57

\* chunk holds no double CRLF, or its text does not start with a status line.
Malformed(chunk) ==
    \/ IndexOf(chunk, << 13, 10, 13, 10 >>) = -1
    \/ ~MatchesStatusLine(TextDecode(chunk))

\* C17: before the upgrade, a chunk with no double CRLF, or with another
\* first line than HTTP/1.1 and digits, makes the client emit error with the
\* parser's error and nothing else; the adapter is left alone.
C17_ParseErrorReported ==
    [][EmitsData /\ ~upgraded /\ Malformed(Last(events').data) =>
         /\ clientEvents' = Append(clientEvents,
                ClientError(IF IndexOf(Last(events').data, << 13, 10, 13, 10 >>) = -1
                            THEN "no header terminator"
                            ELSE "status line mismatch"))
         /\ ~upgraded'
         /\ ~requestThrew'
         /\ UNCHANGED << adapterFlags, readerCancels, writerCloses >>]_vars

\* The client reported both parse errors, for a header block cut short and
\* for a status line of HTTP/1.0, and the adapter is not destroyed.
C17_Witness ==
    /\ Len(events) = 2
    /\ events[1].data = ChunkNoTerminator
    /\ events[2].data = ChunkBadStatus
    /\ clientEvents = << ClientError("no header terminator"),
                         ClientError("status line mismatch") >>
    /\ ~readableState.destroyed

\* --------------------------------------------------------------- C18
\* The outcome events of the handshake: response, upgrade and parse errors.
Outcomes ==
    { i \in 1 .. Len(clientEvents) :
        \/ clientEvents[i].name \in { "response", "upgrade" }
        \/ /\ clientEvents[i].name = "error"
           /\ clientEvents[i].err \in { "no header terminator",
                                        "status line mismatch" } }

\* C18: the client emits an outcome only once its end() has been called, and
\* at most one outcome per handshake.
C18_StateMachine ==
    /\ Outcomes # {} => CallsOf("request.end") # {}
    /\ Cardinality(Outcomes) <= 1

\* --------------------------------------------------------------- C19
\* The pump resumes from a read that settled the way kind says.
PumpResumes(kind) == pump = "resumed" /\ Runs(kind) /\ pump' # pump

CorkedAt(k) ==
    \E j \in 1 .. (k - 1) :
        /\ calls[j].op = "cork"
        /\ \A m \in (j + 1) .. (k - 1) : calls[m].op # "uncork"

\* Write k was enqueued and another write was enqueued behind it before
\* the flush.
Superseded(k) ==
    /\ calls[k].op = "write"
    /\ CorkedAt(k)
    /\ \E n \in (k + 1) .. Len(calls) :
        /\ calls[n].op = "write"
        /\ \A m \in (k + 1) .. (n - 1) : calls[m].op # "uncork"

\* The callback given with call k.
CallbackOf(k) == IF calls[k].hasCb THEN UserCb(k) ELSE NoCb

\* C20: the flush of uncork() writes with the callback of the write
\* enqueued last, none if that write had none; a callback is invoked at most
\* once, after its write has settled, and the callback of a write that
\* another enqueued write followed is never invoked.
C20_LastCallbackOnly ==
    /\ [][IsCall("uncork") /\ corkedQueue # << >> =>
            LET k == CHOOSE n \in CallsOf("write") :
                        \A m \in CallsOf("write") : m <= n
            IN  pendingWrites' = Append(pendingWrites, CallbackOf(k))]_vars
    /\ [](\A i \in 1 .. Len(cbLog) :
            /\ ~Superseded(cbLog[i].id)
            /\ \A j \in 1 .. Len(cbLog) : cbLog[j].id = cbLog[i].id => j = i
            /\ \A j \in 1 .. Len(pendingWrites) :
                 pendingWrites[j].id # cbLog[i].id)

\* cork(), write(data, cb), write(data, cb'), uncork(), and the merged
\* write has resolved: cb' alone was invoked.
C20_Witness ==
    /\ Len(calls) = 4
    /\ calls[2].op = "write" /\ calls[2].hasCb
    /\ calls[3].op = "write" /\ calls[3].hasCb
    /\ calls[4].op = "uncork"
    /\ writerLog = << ChunkA \o ChunkA >>
    /\ pendingWrites = << >>
    /\ mq = << >>
    /\ cbLog = << [id |-> 3, err |-> Undefined] >>

\* --------------------------------------------------------------- C21
\* C21: a rejection of the writer.close() made by end() emits nothing on
\* the adapter.
C21_CloseFailureIgnored ==
    [][Reacts("closeCatch") => events' = events]_vars

\* --------------------------------------------------------------- C22
\* C22: a flag of _readableState or _writableState that is true stays true,
\* and a destroy() that finds the adapter not destroyed sets both destroyed
\* flags inside the call.
C22_FlagsMonotonic ==
    /\ [][/\ readableState.destroyed => readableState'.destroyed
          /\ readableState.endEmitted => readableState'.endEmitted
          /\ writableState.destroyed => writableState'.destroyed
          /\ writableState.closed => writableState'.closed
          /\ writableState.finished => writableState'.finished]_vars
    /\ [][IsCall("destroy") /\ ~readableState.destroyed =>
            /\ readableState'.destroyed
            /\ writableState'.destroyed]_vars
    /\ [](writableState.destroyed => readableState.destroyed)

\* destroy() and end() were called and their microtasks have run: the five
\* flags are set.
C22_Witness ==
    /\ readableState.destroyed
    /\ readableState.endEmitted
    /\ writableState.destroyed
    /\ writableState.closed
    /\ writableState.finished
    /\ CallsOf("destroy") # {}
    /\ mq = << >>

\* --------------------------------------------------------------- C23
\* C23: no error, finish, end or data event follows close.
C23_CloseIsLast ==
    \A i \in At("close") : \A j \in (i + 1) .. Len(events) :
        events[j].name \notin { "error", "finish", "end", "data" }

\* --------------------------------------------------------------- C24
\* C24: _writableState.errorEmitted is true exactly when the adapter has
\* emitted error.
C24_ErrorEmittedTracksErrors ==
    writableState.errorEmitted <=> At("error") # {}

====
